---- MODULE Spec2Model ----
(***************************************************************************)
(* Model of ContinuousTranscriber (src/model.py): the capture / chunk      *)
(* assembly / silence gate / dispatch pipeline and its start/stop          *)
(* lifecycle.                                                              *)
(*                                                                         *)
(* Three kinds of execution contexts take steps:                           *)
(*   - the control context, which calls set_callback, start_transcription  *)
(*     and stop_transcription one call at a time (ctl is its position);    *)
(*   - the capture context of the audio stream (audio_callback);           *)
(*   - the processing threads running process_audio (thr[t].pc).           *)
(*                                                                         *)
(* Time is discrete, in seconds, and relative to the present: time.time()  *)
(* is Now = 0 and a stored timestamp is a value <= 0.  When a second       *)
(* passes (Tick) every stored timestamp moves one second into the past,    *)
(* down to the point beyond which the code's comparisons no longer         *)
(* distinguish it.  The 0.1 s queue-pop timeout and the 0.1 s backoff are  *)
(* shorter than one second and take no modelled time.                      *)
(* Amplitudes are integers in thousandths (0.01 is 10).  A sample is       *)
(* <<id, amplitude>>, where id is its position in the captured stream; a   *)
(* frame is a sequence of samples.                                         *)
(* Only the stream that self.stream references delivers frames.  The       *)
(* locals of process_audio cease to exist when the thread returns, and a   *)
(* local that is not read again before it is reassigned is forgotten.      *)
(*                                                                         *)
(* env is the environment of one run: how many frames the device delivers, *)
(* how many threads the run creates, how many seconds it lasts, whether    *)
(* opening the device or starting a thread can fail, which amplitudes the  *)
(* device picks up, and what the constructor left behind (target language, *)
(* translation subsystem).                                                 *)
(***************************************************************************)
EXTENDS Integers, Sequences, FiniteSets, TLC

\* ---------------------------------------------------------------- bounds
SampleRate == 1          \* samples per second (scaled down from 16000)
MaxFrames == 2           \* frames the device delivers in a run (at most)
MaxFrameLen == 3         \* a frame carries 1..MaxFrameLen samples
MaxThreads == 2          \* threading.Thread objects created in a run (at most)
ShortSeconds == 2        \* seconds a time-limited run lasts
MaxTypedLen == 3         \* a typed language string has 0..MaxTypedLen characters

\* ------------------------------------------------------ program constants
BufferDuration == 2
SamplesPerChunk == SampleRate * BufferDuration
MinAudioLevel == 10
AssemblyCeiling == (BufferDuration * 3) \div 2
KeepaliveThreshold == 5
JoinTimeout == 2
Unit == 1000             \* amplitude 1.0 in thousandths

Now == 0
NoTime == 1              \* "no timestamp recorded"
Amplitudes == {5, -500}
ThreadIds == 1..MaxThreads

FirstQueue == 1          \* the queue.Queue() made by the constructor
Forever == -1            \* a run without a time limit
\* the runs explored
Environments ==
  { [frames |-> MaxFrames, threads |-> 1, seconds |-> 0, faults |-> FALSE,
     amps |-> Amplitudes, lang |-> "en", avail |-> TRUE, loaded |-> FALSE],
    [frames |-> 1, threads |-> 1, seconds |-> Forever, faults |-> TRUE,
     amps |-> Amplitudes, lang |-> "en", avail |-> TRUE, loaded |-> FALSE],
    [frames |-> 1, threads |-> 1, seconds |-> ShortSeconds, faults |-> TRUE,
     amps |-> Amplitudes, lang |-> "fr", avail |-> TRUE, loaded |-> TRUE],
    [frames |-> 1, threads |-> 1, seconds |-> ShortSeconds, faults |-> TRUE,
     amps |-> Amplitudes, lang |-> "fr", avail |-> FALSE, loaded |-> FALSE],
    [frames |-> 1, threads |-> MaxThreads, seconds |-> ShortSeconds,
     faults |-> FALSE,
     amps |-> Amplitudes, lang |-> "en", avail |-> TRUE, loaded |-> FALSE],
    [frames |-> 2, threads |-> 2, seconds |-> JoinTimeout, faults |-> FALSE,
     amps |-> {5}, lang |-> "en", avail |-> TRUE, loaded |-> FALSE] }

\* ------------------------------------------------- language validation
\* a string is a sequence of one-character strings
UpperCase ==
  <<"A", "B", "C", "D", "E", "F", "G", "H", "I", "J", "K", "L", "M">> \o
  <<"N", "O", "P", "Q", "R", "S", "T", "U", "V", "W", "X", "Y", "Z">>
LowerCase ==
  <<"a", "b", "c", "d", "e", "f", "g", "h", "i", "j", "k", "l", "m">> \o
  <<"n", "o", "p", "q", "r", "s", "t", "u", "v", "w", "x", "y", "z">>
Letters == 1..26
IsUpper(c) == \E i \in Letters : UpperCase[i] = c
IsLower(c) == \E i \in Letters : LowerCase[i] = c

\* str.lower(), one character and a whole string
LowerNone(c) == c
Lower(c) ==
  IF IsUpper(c) THEN LowerCase[CHOOSE i \in Letters : UpperCase[i] = c] ELSE c
LowerStr(s) == [i \in 1..Len(s) |-> Lower(s[i])]

\* self.available_languages, in insertion order
available_languages ==
  << [name |-> <<"E", "n", "g", "l", "i", "s", "h">>,
      code |-> <<"e", "n">>],
     [name |-> <<"S", "p", "a", "n", "i", "s", "h">>,
      code |-> <<"e", "s">>],
     [name |-> <<"F", "r", "e", "n", "c", "h">>,
      code |-> <<"f", "r">>],
     [name |-> <<"I", "t", "a", "l", "i", "a", "n">>,
      code |-> <<"i", "t">>],
     [name |-> <<"P", "o", "r", "t", "u", "g", "u", "e", "s", "e">>,
      code |-> <<"p", "t">>],
     [name |-> <<"R", "o", "m", "a", "n", "i", "a", "n">>,
      code |-> <<"r", "o">>],
     [name |-> <<"C", "a", "t", "a", "l", "a", "n">>,
      code |-> <<"c", "a">>],
     [name |-> <<"G", "e", "r", "m", "a", "n">>,
      code |-> <<"d", "e">>],
     [name |-> <<"D", "u", "t", "c", "h">>,
      code |-> <<"n", "l">>],
     [name |-> <<"R", "u", "s", "s", "i", "a", "n">>,
      code |-> <<"r", "u">>],
     [name |-> <<"J", "a", "p", "a", "n", "e", "s", "e">>,
      code |-> <<"j", "a">>],
     [name |-> <<"C", "h", "i", "n", "e", "s", "e">>,
      code |-> <<"z", "h">>] >>
Codes == {available_languages[i].code : i \in DOMAIN available_languages}
DefaultCode == <<"e", "n">>

\* Python values passed as language_code, and the ways the call can end
Str(v) == [kind |-> "str", val |-> v]
NoneValue == [kind |-> "None", val |-> <<>>]
IntValue == [kind |-> "int", val |-> <<>>]
NotCalled == [kind |-> "not called", val |-> <<>>]
Returns(code) == [kind |-> "return", val |-> code]
AttributeError == [kind |-> "AttributeError", val |-> <<>>]

\* lines 148-158
validate_language(language_code) ==
  IF language_code.kind = "str" /\ language_code.val \in Codes
  THEN Returns(language_code.val)
  ELSE IF language_code.kind # "str"
  THEN AttributeError      \* line 154: the value has no method lower
  ELSE LET hits == {i \in DOMAIN available_languages :
                      LowerStr(language_code.val)
                        = LowerStr(available_languages[i].name)}
       IN IF hits # {}
          THEN Returns(available_languages[
                         CHOOSE i \in hits : \A j \in hits : i <= j].code)
          ELSE Returns(DefaultCode)

\* the values tried: every spelling of a table name in upper and lower
\* case, every short string over TypedChars, and two values that are not
\* strings
Spellings(c) ==
  IF IsUpper(c) THEN {c, LowerCase[CHOOSE i \in Letters : UpperCase[i] = c]}
  ELSE IF IsLower(c)
  THEN {c, UpperCase[CHOOSE i \in Letters : LowerCase[i] = c]}
  ELSE {c}
RECURSIVE CaseVariants(_)
CaseVariants(s) ==
  IF s = <<>> THEN {<<>>}
  ELSE {<<x>> \o r : x \in Spellings(Head(s)), r \in CaseVariants(Tail(s))}
TypedChars == {"e", "n", "f", "r", "F", "R", " "}
TypedStrings == UNION {[1..k -> TypedChars] : k \in 0..MaxTypedLen}
LanguageInputs ==
  {Str(v) : v \in TypedStrings}
    \cup {Str(v) : v \in UNION {CaseVariants(available_languages[i].name) :
                                  i \in DOMAIN available_languages}}
    \cup {NoneValue, IntValue}

VARIABLES
  language_code,        \* the argument of _validate_language
  validated,            \* how the call of _validate_language ended
  env,                  \* the environment of this run
  running,              \* self.running
  stream,               \* self.stream: "None", "open" (created), "active"
  processing_thread,    \* self.processing_thread: 0 is None, else a thread id
  buffer,               \* self.buffer: the queue of frames
  buffer_id,            \* which queue.Queue object self.buffer refers to
  callback_function,    \* self.callback_function: "None" or "cb"
  target_language,      \* self.target_language
  translation_available,\* self.translation_available
  translation_loaded,   \* translation_model and translation_tokenizer set
  ctl,                  \* position of the control context
  last_call,            \* how the last lifecycle call ended
  stop_from_idle,       \* the stop call in progress was entered while Idle
  join_start,           \* when join() was entered, NoTime outside join()
  thr,                  \* processing threads: locals of process_audio
  nthreads,             \* thread objects created so far
  elapsed,              \* seconds since the start of a time-limited run
  nframes,              \* frames captured so far
  nsamples,             \* samples captured so far
  engine_calls,         \* calls of whisper_model.transcribe
  translate_calls,      \* calls of the translation tokenizer and model
  delivered,            \* sample ids handed to process_audio_chunk, in order
  dropped,              \* sample ids cut off by truncation
  session_first         \* samples captured before the latest start

vars == <<language_code, validated, buffer_id, env, running, stream, processing_thread, buffer, callback_function,
          target_language, translation_available, translation_loaded,
          ctl, last_call, stop_from_idle, join_start, thr, nthreads, elapsed,
          nframes, nsamples, engine_calls, translate_calls, delivered,
          dropped, session_first>>

config == <<env, target_language, translation_loaded, language_code,
            validated, buffer_id>>
ghosts == <<delivered, dropped, translate_calls, session_first>>

\* ------------------------------------------------------------- helpers
NoText == [some |-> FALSE, val |-> <<>>]
Some(v) == [some |-> TRUE, val |-> v]
\* Python truthiness of an optional string
Truthy(x) == x.some /\ x.val # <<>>

Abs(a) == IF a < 0 THEN -a ELSE a

RECURSIVE Concat(_)
Concat(chunks) ==
  IF chunks = <<>> THEN <<>> ELSE Head(chunks) \o Concat(Tail(chunks))

RECURSIVE Peak(_)
Peak(data) ==
  IF data = <<>> THEN 0
  ELSE LET rest == Peak(Tail(data))
           a == Abs(Head(data)[2])
       IN IF a > rest THEN a ELSE rest

Ids(data) == {data[i][1] : i \in 1..Len(data)}
IdSeq(data) == [i \in 1..Len(data) |-> data[i][1]]

TruncateNone(data) == data
TruncateShort(data) ==
  IF Len(data) > SamplesPerChunk THEN SubSeq(data, 1, SamplesPerChunk - 1)
  ELSE data
Truncate(data) ==
  IF Len(data) > SamplesPerChunk THEN SubSeq(data, 1, SamplesPerChunk)
  ELSE data

CarriedChunks(prev) ==
  LET all == Concat(prev)
  IN IF Len(all) > SamplesPerChunk
     THEN << SubSeq(all, SamplesPerChunk + 1, Len(all)) >>
     ELSE <<>>
NewCycleChunks(prev) == <<>>

GateOpen(level) == FALSE
BelowMinLevel(level) == level < MinAudioLevel

NormalizeNone(data, level) == data
Normalize(data, level) ==
  IF level > 0
  THEN [i \in 1..Len(data) |-> <<data[i][1], (data[i][2] * Unit) \div level>>]
  ELSE data

\* the callback invocation a cycle ended with, if it made one
NoCall == [made |-> FALSE, transcription |-> NoText, translation |-> NoText]
Call(a, b) == [made |-> TRUE, transcription |-> a, translation |-> b]

NewThread == [pc |-> "none", audio_chunks |-> <<>>, current_size |-> 0,
              start_time |-> NoTime, last_transcription_time |-> 0,
              audio_data |-> <<>>, engine_in |-> <<>>,
              transcription |-> NoText, translation |-> NoText,
              sent |-> NoCall, failed |-> "no", last_informative |-> NoTime]

Returned == [NewThread EXCEPT !.pc = "done"]

LivePcs == {"begin", "loop", "inner", "get", "check", "engine",
            "translate", "dispatch", "keepalive"}

Idle == ~running /\ stream = "None" /\ processing_thread = 0

\* ---------------------------------------------------------------- Init
\* the state after __init__ in one of the runs of envs
Construct(envs) ==
  /\ language_code = Str(DefaultCode)
  /\ validated = NotCalled
  /\ running = FALSE
  /\ stream = "None"
  /\ processing_thread = 0
  /\ buffer = <<>>
  /\ buffer_id = FirstQueue
  /\ callback_function = "None"
  /\ env \in envs
  /\ target_language = env.lang
  /\ translation_available = env.avail
  /\ translation_loaded = env.loaded
  /\ ctl = "idle"
  /\ last_call = "none"
  /\ stop_from_idle = FALSE
  /\ join_start = NoTime
  /\ thr = [t \in ThreadIds |-> NewThread]
  /\ nthreads = 0
  /\ elapsed = 0
  /\ nframes = 0
  /\ nsamples = 0
  /\ engine_calls = 0
  /\ translate_calls = 0
  /\ delivered = <<>>
  /\ dropped = {}
  /\ session_first = 0

Init == Construct(Environments)

\* ------------------------------------------------------ control context
SetCallback ==
  /\ ctl = "idle"
  /\ callback_function' = "cb"
  /\ UNCHANGED <<running, stream, processing_thread, buffer, config, elapsed,
                 translation_available, ctl, last_call, stop_from_idle,
                 join_start, thr, nthreads, nframes, nsamples,
                 engine_calls, ghosts>>

StartCall ==
  /\ ctl = "idle"
  /\ ctl' = "start_check"
  /\ UNCHANGED <<running, stream, processing_thread, buffer,
                 callback_function, config, elapsed, translation_available, last_call,
                 stop_from_idle, join_start, thr, nthreads, nframes,
                 nsamples, engine_calls, ghosts>>

AlreadyRunningNever(r) == FALSE
AlreadyRunning(r) == r

StartCheck ==
  /\ ctl = "start_check"
  /\ IF AlreadyRunning(running)
     THEN /\ ctl' = "idle"
          /\ last_call' = "start_noop"
          /\ UNCHANGED <<running, session_first>>
     ELSE /\ running' = TRUE
          /\ session_first' = nsamples
          /\ ctl' = "start_open"
          /\ UNCHANGED last_call
  /\ UNCHANGED <<stream, processing_thread, buffer, callback_function,
                 config, elapsed, translation_available, stop_from_idle, join_start,
                 thr, nthreads, nframes, nsamples, engine_calls, delivered,
                 dropped, translate_calls>>

StartOpen ==
  /\ ctl = "start_open"
  /\ \E outcome \in {"open_fails", "stream_start_fails", "thread_start_fails",
                     "ok"} :
       /\ outcome # "ok" => env.faults
       /\ outcome \in {"thread_start_fails", "ok"} => nthreads < env.threads
       /\ stream' = CASE outcome = "open_fails" -> stream
                      [] outcome = "stream_start_fails" -> "open"
                      [] OTHER -> "active"
       /\ IF outcome \in {"thread_start_fails", "ok"}
          THEN /\ nthreads' = nthreads + 1
               /\ processing_thread' = nthreads + 1
               /\ thr' = [thr EXCEPT ![nthreads + 1] =
                            [NewThread EXCEPT !.pc =
                               IF outcome = "ok" THEN "begin"
                               ELSE "unstarted"]]
          ELSE UNCHANGED <<nthreads, processing_thread, thr>>
       /\ IF outcome = "ok"
          THEN /\ last_call' = "start_ok"
               /\ UNCHANGED running
          ELSE /\ running' = FALSE
               /\ last_call' = "start_raised"
  /\ ctl' = "idle"
  /\ UNCHANGED <<buffer, callback_function, config, elapsed, translation_available,
                 stop_from_idle, join_start, nframes, nsamples,
                 engine_calls, ghosts>>

StopNextDrainFirst(pc) ==
  CASE pc = "stop_flag" -> "stop_drain"
    [] pc = "stop_drain" -> "stop_stream"
    [] pc = "stop_stream" -> "stop_join"
    [] pc = "stop_join" -> "idle"
StopNext(pc) ==
  CASE pc = "stop_flag" -> "stop_stream"
    [] pc = "stop_stream" -> "stop_join"
    [] pc = "stop_join" -> "stop_drain"
    [] pc = "stop_drain" -> "idle"

StopPcs == {"stop_flag", "stop_stream", "stop_join", "stop_drain"}

\* the control context moves on to the statement after pc
StopGoto(pc) ==
  /\ ctl' = StopNext(pc)
  /\ join_start' = IF StopNext(pc) = "stop_join" THEN Now ELSE NoTime
  /\ IF StopNext(pc) = "idle"
     THEN last_call' = "stop_ok" /\ stop_from_idle' = FALSE
     ELSE UNCHANGED <<last_call, stop_from_idle>>

StopCall ==
  /\ ctl = "idle"
  /\ ctl' = "stop_flag"
  /\ stop_from_idle' = Idle
  /\ UNCHANGED <<running, stream, processing_thread, buffer,
                 callback_function, config, elapsed, translation_available, last_call,
                 join_start, thr, nthreads, nframes, nsamples,
                 engine_calls, ghosts>>

StopFlag ==
  /\ ctl = "stop_flag"
  /\ running' = FALSE
  /\ StopGoto("stop_flag")
  /\ UNCHANGED <<stream, processing_thread, buffer, callback_function,
                 config, elapsed, translation_available, thr, nthreads, nframes,
                 nsamples, engine_calls, ghosts>>

StopStream ==
  /\ ctl = "stop_stream"
  /\ stream' = IF stream # "None" THEN "None" ELSE stream
  /\ StopGoto("stop_stream")
  /\ UNCHANGED <<running, processing_thread, buffer, callback_function,
                 config, elapsed, translation_available, thr, nthreads, nframes,
                 nsamples, engine_calls, ghosts>>

\* line 395: if self.processing_thread
HasThreadAlways(p) == TRUE
HasThread(p) == p # 0

\* join() on something that is not a started thread raises
JoinRaisesOnTimeout(p) ==
  p = 0 \/ thr[p].pc = "unstarted" \/ thr[p].pc \in LivePcs
JoinRaises(p) == p = 0 \/ thr[p].pc = "unstarted"

StopJoin ==
  /\ ctl = "stop_join"
  /\ IF ~HasThread(processing_thread)
     THEN /\ StopGoto("stop_join")
          /\ UNCHANGED processing_thread
     ELSE IF JoinRaises(processing_thread)
     THEN \* the handler of line 407 logs the error and stop returns
          /\ ctl' = "idle"
          /\ join_start' = NoTime
          /\ last_call' = "stop_error_logged"
          /\ stop_from_idle' = FALSE
          /\ UNCHANGED processing_thread
     ELSE \* join returns when the thread has returned or after the timeout
          /\ \/ thr[processing_thread].pc = "done"
             \/ Now - join_start >= JoinTimeout
          /\ processing_thread' = 0
          /\ StopGoto("stop_join")
  /\ UNCHANGED <<running, stream, buffer, callback_function, config, elapsed,
                 translation_available, thr, nthreads, nframes, nsamples,
                 engine_calls, ghosts>>

StopDrain ==
  /\ ctl = "stop_drain"
  /\ IF buffer # <<>>
     THEN /\ buffer' = Tail(buffer)
          /\ UNCHANGED <<ctl, join_start, last_call, stop_from_idle>>
     ELSE /\ StopGoto("stop_drain")
          /\ UNCHANGED buffer
  /\ UNCHANGED <<running, stream, processing_thread, callback_function,
                 config, elapsed, translation_available, thr, nthreads, nframes,
                 nsamples, engine_calls, ghosts>>

\* ------------------------------------------------------ capture context
AudioCallback ==
  /\ stream = "active"
  /\ nframes < env.frames
  /\ \E n \in 1..MaxFrameLen, a \in env.amps :
       /\ buffer' = Append(buffer, [i \in 1..n |-> <<nsamples + i, a>>])
       /\ nsamples' = nsamples + n
  /\ nframes' = nframes + 1
  /\ UNCHANGED <<running, stream, processing_thread, callback_function,
                 config, elapsed, translation_available, ctl, last_call,
                 stop_from_idle, join_start, thr, nthreads, engine_calls, ghosts>>

\* a timestamp one second later, as seen from the new present
Older(ts, horizon) ==
  IF ts = NoTime THEN NoTime
  ELSE IF ts - 1 < Now - horizon THEN Now - horizon
  ELSE ts - 1

Tick ==
  /\ env.seconds = Forever \/ elapsed < env.seconds
  /\ elapsed' = IF env.seconds = Forever THEN elapsed ELSE elapsed + 1
  /\ thr' = [t \in ThreadIds |->
              IF thr[t].pc \in LivePcs \ {"begin"}
              THEN [thr[t] EXCEPT
                      !.start_time = Older(@, AssemblyCeiling + 1),
                      !.last_transcription_time =
                          Older(@, KeepaliveThreshold + 1),
                      !.last_informative =
                          Older(@, KeepaliveThreshold + 1)]
              ELSE thr[t]]
  /\ join_start' = Older(join_start, JoinTimeout)
  /\ UNCHANGED <<running, stream, processing_thread, buffer,
                 callback_function, config, translation_available, ctl,
                 last_call, stop_from_idle, nthreads,
                 nframes, nsamples, engine_calls, ghosts>>

\* --------------------------------------------------- processing context
\* text is a sequence of characters; " " is the only whitespace used
RECURSIVE Join(_)
Join(parts) ==
  IF parts = <<>> THEN <<>>
  ELSE IF Len(parts) = 1 THEN parts[1]
  ELSE parts[1] \o <<" ">> \o Join(Tail(parts))

RECURSIVE LStrip(_)
LStrip(s) == IF s # <<>> /\ Head(s) = " " THEN LStrip(Tail(s)) ELSE s

RECURSIVE RStrip(_)
RStrip(s) ==
  IF s # <<>> /\ s[Len(s)] = " " THEN RStrip(SubSeq(s, 1, Len(s) - 1)) ELSE s

Strip(s) == RStrip(LStrip(s))

\* segment lists the engine may return
SegmentLists == { <<>>, << <<" ">> >>, << <<" ", "a">> >>,
                  << <<"a">>, <<"b">> >> }
\* strings the translation model may decode
Translations == { <<>>, <<"x">> }

\* line 299: the thread enters process_audio
ThreadBegin(t) ==
  /\ thr[t].pc = "begin"
  /\ thr' = [thr EXCEPT ![t].last_transcription_time = Now, ![t].pc = "loop"]
  /\ UNCHANGED <<running, stream, processing_thread, buffer,
                 callback_function, config, elapsed, translation_available, ctl,
                 last_call, stop_from_idle, join_start, nthreads, nframes,
                 nsamples, engine_calls, ghosts>>

\* lines 301-306: the outer loop test and the start of a cycle
LoopCheck(t) ==
  /\ thr[t].pc = "loop"
  /\ IF running
     THEN thr' = [thr EXCEPT
                    ![t].audio_chunks = NewCycleChunks(thr[t].audio_chunks),
                    ![t].current_size = 0,
                    ![t].start_time = Now,
                    ![t].sent = NoCall,
                    ![t].failed = "no",
                    ![t].pc = "inner"]
     ELSE thr' = [thr EXCEPT ![t] = Returned]
  /\ UNCHANGED <<running, stream, processing_thread, buffer,
                 callback_function, config, elapsed, translation_available, ctl,
                 last_call, stop_from_idle, join_start, nthreads, nframes,
                 nsamples, engine_calls, ghosts>>

\* line 308: the collection loop test
InnerCheck(t) ==
  /\ thr[t].pc = "inner"
  /\ IF thr[t].current_size < SamplesPerChunk /\ running
     THEN thr' = [thr EXCEPT ![t].pc = "get"]
     ELSE thr' = [thr EXCEPT ![t].start_time = NoTime, ![t].pc = "check"]
  /\ UNCHANGED <<running, stream, processing_thread, buffer,
                 callback_function, config, elapsed, translation_available, ctl,
                 last_call, stop_from_idle, join_start, nthreads, nframes,
                 nsamples, engine_calls, ghosts>>

\* lines 310-316: buffer.get returns a frame
GetFrame(t) ==
  /\ thr[t].pc = "get"
  /\ buffer # <<>>
  /\ buffer' = Tail(buffer)
  /\ LET timeout == Now - thr[t].start_time > AssemblyCeiling
     IN thr' = [thr EXCEPT
                  ![t].audio_chunks = Append(thr[t].audio_chunks, Head(buffer)),
                  ![t].current_size = thr[t].current_size + Len(Head(buffer)),
                  ![t].start_time = IF timeout THEN NoTime ELSE @,
                  ![t].pc = IF timeout THEN "check" ELSE "inner"]
  /\ UNCHANGED <<running, stream, processing_thread, callback_function,
                 config, elapsed, translation_available, ctl, last_call,
                 stop_from_idle, join_start, nthreads, nframes, nsamples,
                 engine_calls, ghosts>>

\* line 310: get(timeout=0.1) on an empty queue raises queue.Empty
QueueEmptyNever(q) == FALSE
QueueEmptyRaised(q) == q = <<>>

\* lines 318-319: buffer.get raises queue.Empty
GetEmpty(t) ==
  /\ thr[t].pc = "get"
  /\ QueueEmptyRaised(buffer)
  /\ thr' = [thr EXCEPT ![t].pc = "inner"]
  /\ UNCHANGED <<running, stream, processing_thread, buffer,
                 callback_function, config, elapsed, translation_available, ctl,
                 last_call, stop_from_idle, join_start, nthreads, nframes,
                 nsamples, engine_calls, ghosts>>

\* line 321: if not self.running
StopObservedNever(r) == FALSE
StopObserved(r) == ~r

\* lines 321-331 and 219-230: after the collection loop the chunk is built
\* and handed to process_audio_chunk, which gates and normalizes it
AfterInner(t) ==
  /\ thr[t].pc = "check"
  /\ IF StopObserved(running)
     THEN /\ thr' = [thr EXCEPT ![t] = Returned]
          /\ UNCHANGED <<engine_calls, ghosts>>
     ELSE IF thr[t].audio_chunks = <<>>
     THEN /\ thr' = [thr EXCEPT ![t].pc = "loop"]
          /\ UNCHANGED <<engine_calls, ghosts>>
     ELSE LET all == Concat(thr[t].audio_chunks)
              data == Truncate(all)
              level == Peak(data)
          IN /\ delivered' = delivered \o IdSeq(data)
             /\ dropped' = dropped \cup (Ids(all) \ Ids(data))
             /\ UNCHANGED <<translate_calls, session_first>>
             /\ IF BelowMinLevel(level)
                THEN /\ thr' = [thr EXCEPT ![t].audio_data = data,
                                           ![t].transcription = NoText,
                                           ![t].translation = NoText,
                                           ![t].pc = "dispatch"]
                     /\ UNCHANGED engine_calls
                ELSE /\ thr' = [thr EXCEPT
                                  ![t].audio_data = data,
                                  ![t].engine_in = Normalize(data, level),
                                  ![t].pc = "engine"]
                     /\ engine_calls' = engine_calls + 1
  /\ UNCHANGED <<running, stream, processing_thread, buffer,
                 callback_function, config, elapsed, translation_available, ctl,
                 last_call, stop_from_idle, join_start, nthreads, nframes,
                 nsamples>>

\* lines 234-264 and 277-280: whisper_model.transcribe returns or raises
EngineReturn(t) ==
  /\ thr[t].pc = "engine"
  /\ \/ \* transcribe raises: the handler of line 277 returns (None, None)
        thr' = [thr EXCEPT ![t].engine_in = <<>>,
                           ![t].transcription = NoText,
                           ![t].translation = NoText,
                           ![t].failed = "engine",
                           ![t].pc = "dispatch"]
     \/ \E segments \in SegmentLists :
          LET text == Strip(Join(segments))
          IN IF text = <<>>
             THEN thr' = [thr EXCEPT ![t].engine_in = <<>>,
                                     ![t].transcription = NoText,
                                     ![t].translation = NoText,
                                     ![t].pc = "dispatch"]
             ELSE thr' = [thr EXCEPT
                            ![t].engine_in = <<>>,
                            ![t].transcription = Some(text),
                            ![t].translation = NoText,
                            ![t].pc = IF target_language # "en"
                                      THEN "translate" ELSE "dispatch"]
  /\ UNCHANGED <<running, stream, processing_thread, buffer,
                 callback_function, config, elapsed, translation_available, ctl,
                 last_call, stop_from_idle, join_start, nthreads, nframes,
                 nsamples, engine_calls, ghosts>>

\* lines 168-215 and 269-275: _translate_text
\* lines 170-179: the early returns of _translate_text
CanTranslateUnchecked(text, lang, avail, loaded) == Truthy(text) /\ lang # "en"
CanTranslate(text, lang, avail, loaded) ==
  Truthy(text) /\ lang # "en" /\ avail /\ loaded

TranslateText(t) ==
  /\ thr[t].pc = "translate"
  /\ IF ~CanTranslate(thr[t].transcription, target_language,
                      translation_available, translation_loaded)
     THEN /\ thr' = [thr EXCEPT ![t].translation = NoText,
                                ![t].pc = "dispatch"]
          /\ UNCHANGED <<translation_available, translate_calls>>
     ELSE /\ translate_calls' = translate_calls + 1
          /\ \/ \E out \in Translations :
                  /\ thr' = [thr EXCEPT ![t].translation = Some(out),
                                        ![t].pc = "dispatch"]
                  /\ UNCHANGED translation_available
             \/ \E sentencepiece \in BOOLEAN :
                  \* the tokenizer or the model raises
                  /\ thr' = [thr EXCEPT ![t].translation = NoText,
                                        ![t].failed = "translation",
                                        ![t].pc = "dispatch"]
                  /\ translation_available' =
                       IF sentencepiece THEN FALSE ELSE translation_available
  /\ UNCHANGED <<running, stream, processing_thread, buffer,
                 callback_function, config, elapsed, ctl, last_call, stop_from_idle,
                 join_start, nthreads, nframes, nsamples, engine_calls,
                 delivered, dropped, session_first>>

\* line 333: the cycle has a transcription to report
InformativeAlways(rec) == TRUE
InformativeBoth(rec) == Truthy(rec.transcription) /\ Truthy(rec.translation)
Informative(rec) == Truthy(rec.transcription)

KeepaliveDue(t) == Now - thr[t].last_transcription_time > KeepaliveThreshold

\* the locals of a finished cycle, on the way back to line 301
EndCycle(rec) == [rec EXCEPT !.audio_data = <<>>, !.transcription = NoText,
                             !.translation = NoText, !.pc = "loop"]

\* lines 347-350: the handler of the loop logs, backs off and goes on
LoopHandlerExits(rec) == Returned
LoopHandler(rec) == [rec EXCEPT !.failed = "callback"]

\* lines 333-343: a result with a callback registered is dispatched and the
\* timer reset; otherwise the keepalive test is made.  A callback that
\* raises lands in the handler of line 347.
Dispatch(t) ==
  /\ thr[t].pc = "dispatch"
  /\ IF Informative(thr[t]) /\ callback_function # "None"
     THEN LET call == Call(thr[t].transcription, thr[t].translation)
          IN \/ thr' = [thr EXCEPT ![t] =
                          [EndCycle(@) EXCEPT !.last_transcription_time = Now,
                                              !.last_informative = Now,
                                              !.sent = call]]
             \/ thr' = [thr EXCEPT ![t] =
                          LoopHandler([EndCycle(@) EXCEPT
                                         !.last_informative = Now,
                                         !.sent = call])]
     ELSE IF KeepaliveDue(t)
     THEN thr' = [thr EXCEPT ![t].pc = "keepalive"]
     ELSE thr' = [thr EXCEPT ![t] = EndCycle(@)]
  /\ UNCHANGED <<running, stream, processing_thread, buffer,
                 callback_function, config, elapsed, translation_available, ctl,
                 last_call, stop_from_idle, join_start, nthreads, nframes,
                 nsamples, engine_calls, ghosts>>

\* lines 344-345: the keepalive, sent if a callback is registered now; it
\* assigns no local, so the timer stays
Keepalive(t) ==
  /\ thr[t].pc = "keepalive"
  /\ IF callback_function # "None"
     THEN LET call == Call(Some(<<>>), Some(<<>>))
          IN \/ thr' = [thr EXCEPT ![t] = [EndCycle(@) EXCEPT !.sent = call]]
             \/ thr' = [thr EXCEPT ![t] =
                          LoopHandler([EndCycle(@) EXCEPT !.sent = call])]
     ELSE thr' = [thr EXCEPT ![t] = EndCycle(@)]
  /\ UNCHANGED <<running, stream, processing_thread, buffer,
                 callback_function, config, elapsed, translation_available, ctl,
                 last_call, stop_from_idle, join_start, nthreads, nframes,
                 nsamples, engine_calls, ghosts>>

\* ------------------------------------------------------- specification
Next ==
  \/ SetCallback
  \/ StartCall
  \/ StartCheck
  \/ StartOpen
  \/ StopCall
  \/ StopFlag
  \/ StopStream
  \/ StopJoin
  \/ StopDrain
  \/ AudioCallback
  \/ Tick
  \/ \E t \in ThreadIds : ThreadBegin(t)
  \/ \E t \in ThreadIds : LoopCheck(t)
  \/ \E t \in ThreadIds : InnerCheck(t)
  \/ \E t \in ThreadIds : GetFrame(t)
  \/ \E t \in ThreadIds : GetEmpty(t)
  \/ \E t \in ThreadIds : AfterInner(t)
  \/ \E t \in ThreadIds : EngineReturn(t)
  \/ \E t \in ThreadIds : TranslateText(t)
  \/ \E t \in ThreadIds : Dispatch(t)
  \/ \E t \in ThreadIds : Keepalive(t)

Spec == Init /\ [][Next]_vars

\* --------------------------------------- specification with fair threads
\* a step of processing thread t
ThreadStep(t) ==
  \/ ThreadBegin(t)
  \/ LoopCheck(t)
  \/ InnerCheck(t)
  \/ GetFrame(t)
  \/ GetEmpty(t)
  \/ AfterInner(t)
  \/ EngineReturn(t)
  \/ TranslateText(t)
  \/ Dispatch(t)
  \/ Keepalive(t)

\* one run without a time limit, with the translation model loaded, in
\* which the device and the thread start
LiveEnvironments ==
  { [frames |-> 1, threads |-> 1, seconds |-> Forever, faults |-> FALSE,
     amps |-> Amplitudes, lang |-> "fr", avail |-> TRUE, loaded |-> TRUE] }

LiveInit == Construct(LiveEnvironments)

\* every started thread is scheduled again and again, and the calls it is
\* in (engine, translation, callback) return
LiveSpec ==
  LiveInit /\ [][Next]_vars /\ \A t \in ThreadIds : WF_vars(ThreadStep(t))

\* ------------------------------------- specification of _validate_language
\* line 50: the constructor calls _validate_language on its argument
ValidateLanguage ==
  /\ validated = NotCalled
  /\ validated' = validate_language(language_code)
  /\ UNCHANGED <<language_code, env, running, stream, processing_thread,
                 buffer, buffer_id, callback_function, target_language,
                 translation_available, translation_loaded, ctl, last_call,
                 stop_from_idle, join_start, thr, nthreads, elapsed, nframes,
                 nsamples, engine_calls, translate_calls, delivered,
                 dropped, session_first>>

LangInit ==
  /\ language_code \in LanguageInputs
  /\ validated = NotCalled
  /\ running = FALSE
  /\ stream = "None"
  /\ processing_thread = 0
  /\ buffer = <<>>
  /\ buffer_id = FirstQueue
  /\ callback_function = "None"
  /\ env = CHOOSE e \in Environments : e.seconds = Forever
  /\ target_language = env.lang
  /\ translation_available = env.avail
  /\ translation_loaded = env.loaded
  /\ ctl = "idle"
  /\ last_call = "none"
  /\ stop_from_idle = FALSE
  /\ join_start = NoTime
  /\ thr = [t \in ThreadIds |-> NewThread]
  /\ nthreads = 0
  /\ elapsed = 0
  /\ nframes = 0
  /\ nsamples = 0
  /\ engine_calls = 0
  /\ translate_calls = 0
  /\ delivered = <<>>
  /\ dropped = {}
  /\ session_first = 0

LangNext == ValidateLanguage

LangSpec == LangInit /\ [][LangNext]_vars

TypeOK ==
  /\ running \in BOOLEAN
  /\ stream \in {"None", "open", "active"}
  /\ processing_thread \in 0..MaxThreads
  /\ nthreads \in 0..MaxThreads
  /\ nframes \in 0..MaxFrames

\* ---------------------------------------------------------- properties
Range(f) == {f[i] : i \in DOMAIN f}
NoDuplicates(f) == \A i, j \in DOMAIN f : f[i] = f[j] => i = j
StopOutcomes == {"stop_ok", "stop_error_logged"}
ChunkPcs == {"engine", "translate", "dispatch"}
CollectPcs == {"inner", "get", "check"}

\* C1: a call of start_transcription that finds the running flag true
\* returns at once; it opens no stream, creates no thread and leaves the
\* running flag, the stream, the thread handle, the threads and the queue
\* as they are.
C1_StartWhileRunningIsNoop ==
  [][(ctl = "start_check" /\ running /\ ctl' # ctl)
       => /\ ctl' = "idle"
          /\ UNCHANGED <<running, stream, processing_thread, buffer, thr,
                         nthreads>>]_vars

C1_Witness ==
  /\ ctl = "idle"
  /\ last_call = "start_noop"
  /\ running
  /\ stream = "active"
  /\ processing_thread # 0

\* C2: throughout a call of stop_transcription that was entered in the Idle
\* state (flag false, no stream, no thread handle) the running flag, the
\* stream handle, the thread handle, the queue and the callback stay as they
\* are, and the call ends normally, without an error.
C2_StopWhenIdleHasNoEffect ==
  [][(ctl \in StopPcs /\ stop_from_idle)
       => /\ UNCHANGED <<running, stream, processing_thread, buffer,
                         callback_function>>
          /\ ctl' = "idle" => last_call' = "stop_ok"]_vars

C2_Witness ==
  /\ ctl = "stop_drain"
  /\ stop_from_idle
  /\ callback_function = "cb"
  /\ nthreads > 0

\* C3: whenever a call of stop_transcription has returned the pipeline is
\* Idle (flag false, no stream, no thread handle, queue drained), and a
\* call of stop entered right after a stop changes none of these.
C3_StopIsIdempotent ==
  /\ [](ctl = "idle" /\ last_call \in StopOutcomes
          => Idle /\ buffer = <<>>)
  /\ [][(ctl \in StopPcs /\ last_call \in StopOutcomes)
          => UNCHANGED <<running, stream, processing_thread, buffer,
                         callback_function>>]_vars

\* C4: whenever a call of start_transcription has raised, the running flag
\* is false, no stream is capturing and the thread handle names no live
\* thread.
C4_FailedStartRevertsToIdle ==
  (ctl = "idle" /\ last_call = "start_raised")
    => /\ ~running
       /\ stream # "active"
       /\ processing_thread # 0 => thr[processing_thread].pc \notin LivePcs

\* C5: stop tears down in order: the stream is closed only after the flag
\* is false, the join is made only after the stream is closed, and frames
\* are drained only after the join, with the thread handle released.
C5_TeardownOrder ==
  [][/\ (stream # "None" /\ stream' = "None") => ~running
     /\ (ctl = "stop_join" /\ ctl' # ctl) => ~running /\ stream = "None"
     /\ (ctl = "stop_drain" /\ (ctl' # ctl \/ buffer' # buffer))
          => ~running /\ stream = "None" /\ processing_thread = 0]_vars

C5_Witness ==
  /\ ctl = "stop_drain"
  /\ buffer # <<>>
  /\ ~stop_from_idle
  /\ \E t \in ThreadIds : thr[t].pc = "done"

\* C6: a chunk handed to process_audio_chunk, and the buffer handed to the
\* engine, never have more than samples_per_chunk samples.
C6_ChunkNeverExceedsTarget ==
  \A t \in ThreadIds :
    /\ Len(thr[t].audio_data) <= SamplesPerChunk
    /\ Len(thr[t].engine_in) <= SamplesPerChunk

C6_Witness ==
  \E t \in ThreadIds :
    /\ thr[t].pc \in ChunkPcs
    /\ thr[t].current_size > SamplesPerChunk
    /\ Len(thr[t].audio_data) = SamplesPerChunk

C8_OverflowIsDiscarded ==
  /\ NoDuplicates(delivered)
  /\ Range(delivered) \cap dropped = {}
  /\ \A t \in ThreadIds :
       thr[t].pc \in CollectPcs
         => Ids(Concat(thr[t].audio_chunks))
              \cap (Range(delivered) \cup dropped) = {}

C8_Witness ==
  /\ dropped # {}
  /\ \E i \in DOMAIN delivered : \A d \in dropped : delivered[i] > d

\* C9: a chunk whose peak is below min_audio_level does not reach the
\* engine: building it leaves the engine's call count as it is and yields
\* no transcription and no translation, and the engine only ever works on
\* a chunk whose peak is at least min_audio_level.
C9_SilentChunkNeverReachesEngine ==
  /\ [](\A t \in ThreadIds :
          thr[t].pc = "engine" => Peak(thr[t].audio_data) >= MinAudioLevel)
  /\ [][\A t \in ThreadIds :
          (/\ thr[t].pc = "check"
           /\ thr'[t].audio_data # <<>>
           /\ Peak(thr'[t].audio_data) < MinAudioLevel)
            => /\ engine_calls' = engine_calls
               /\ thr'[t].pc = "dispatch"
               /\ thr'[t].transcription = NoText
               /\ thr'[t].translation = NoText]_vars

C9_Witness ==
  \E t \in ThreadIds :
    /\ thr[t].pc = "dispatch"
    /\ thr[t].audio_data # <<>>
    /\ Peak(thr[t].audio_data) < MinAudioLevel
    /\ engine_calls = 0

\* C10: a cycle that ends with the ("", "") keepalive resets the timer, so
\* that the next keepalive is at least the threshold away.
KeepaliveFires(t) ==
  /\ thr[t].pc = "keepalive"
  /\ thr'[t].pc = "loop"
  /\ thr'[t].sent.made

C10_KeepaliveResetsTimer ==
  [][\A t \in ThreadIds :
       KeepaliveFires(t) => thr'[t].last_transcription_time = Now]_vars

\* C11: a transcription the engine produced is never lost on the way to the
\* callback: the translation step, whatever its outcome, hands the same
\* transcription on to the dispatch, and the dispatch of a non-empty
\* transcription with a callback registered invokes the callback with it.
C11_TranscriptionAlwaysDispatched ==
  [][\A t \in ThreadIds :
       /\ (thr[t].pc = "translate" /\ thr'[t].pc # "translate")
            => /\ thr'[t].pc = "dispatch"
               /\ thr'[t].transcription = thr[t].transcription
       /\ (/\ thr[t].pc = "dispatch"
           /\ thr'[t].pc # "dispatch"
           /\ Truthy(thr[t].transcription)
           /\ callback_function # "None")
            => /\ thr'[t].sent.made
               /\ thr'[t].sent.transcription = thr[t].transcription]_vars

\* the translation model was loaded and available, and raised
C11_Witness ==
  \E t \in ThreadIds :
    /\ thr[t].sent.made
    /\ Truthy(thr[t].sent.transcription)
    /\ ~thr[t].sent.translation.some
    /\ target_language # "en"
    /\ translation_available
    /\ translation_loaded

\* C12: in every callback invocation both arguments are strings; None is
\* never passed.
C12_CallbackArgumentsAreStrings ==
  \A t \in ThreadIds :
    thr[t].sent.made
      => thr[t].sent.transcription.some /\ thr[t].sent.translation.some

\* two strings spell the same letters, case aside
SameLetters(a, b) ==
  /\ Len(a) = Len(b)
  /\ \A i \in 1..Len(a) : b[i] \in Spellings(a[i])

NamesSpelled(v) ==
  {i \in DOMAIN available_languages :
     SameLetters(v, available_languages[i].name)}

\* C13: _validate_language returns a code of the table for every string: the
\* string itself when it is a code, the code of the name it spells (in any
\* mix of upper and lower case) when it spells one, and en for every other
\* string.
C13_LanguageResolvesToTableCode ==
  (validated # NotCalled /\ language_code.kind = "str")
    => LET v == language_code.val
       IN /\ validated.kind = "return"
          /\ validated.val \in Codes
          /\ Cardinality(Codes) = 12
          /\ v \in Codes => validated.val = v
          /\ \A i \in NamesSpelled(v) :
               validated.val = available_languages[i].code
          /\ (v \notin Codes /\ NamesSpelled(v) = {})
               => validated.val = DefaultCode

C13_Witness ==
  /\ language_code = Str(<<"F", "R", "E", "N", "C", "H">>)
  /\ validated = Returns(<<"f", "r">>)

\* C14: _validate_language returns for every value, and returns en for a
\* value that is not a string.
C14_ValidationNeverRaises ==
  validated # NotCalled
    => /\ validated.kind = "return"
       /\ language_code.kind # "str" => validated.val = DefaultCode

\* C15: a chunk at or above min_audio_level is handed to the engine exactly
\* once, as a buffer of the same length holding the same samples divided
\* by the chunk's peak, so that the buffer's peak is 1.0; the engine is
\* called for nothing else.
C15_GatedChunkNormalizedOnce ==
  /\ [](\A t \in ThreadIds :
          thr[t].pc = "engine"
            => LET chunk == thr[t].audio_data
                   fed == thr[t].engine_in
               IN /\ Len(fed) = Len(chunk)
                  /\ Peak(fed) = Unit
                  /\ \A i \in 1..Len(chunk) :
                       /\ fed[i][1] = chunk[i][1]
                       /\ fed[i][2] * Peak(chunk) = chunk[i][2] * Unit)
  /\ [][/\ \A t \in ThreadIds :
            (/\ thr[t].pc = "check"
             /\ thr'[t].audio_data # <<>>
             /\ Peak(thr'[t].audio_data) >= MinAudioLevel)
              => thr'[t].pc = "engine" /\ engine_calls' = engine_calls + 1
        /\ engine_calls' # engine_calls
            => \E t \in ThreadIds :
                 /\ thr[t].pc = "check"
                 /\ thr'[t].pc = "engine"
                 /\ engine_calls' = engine_calls + 1]_vars

\* a full chunk of quiet and loud samples at the engine
C15_Witness ==
  \E t \in ThreadIds :
    /\ thr[t].pc = "engine"
    /\ Len(thr[t].audio_data) = SamplesPerChunk
    /\ Peak(thr[t].audio_data) = 500
    /\ \E i \in 1..Len(thr[t].engine_in) : Abs(thr[t].engine_in[i][2]) < Unit
    /\ engine_calls = 1

\* a processing thread has run before: there was an earlier session
HadSession == \E t \in ThreadIds : thr[t].pc \notin {"none", "unstarted"}

\* C17: a start that succeeds after an earlier session gives the new
\* session a queue object other than the one the earlier session used.
C17_QueueRecreatedPerSession ==
  [][(ctl = "start_open" /\ last_call' = "start_ok" /\ HadSession)
       => buffer_id' # buffer_id]_vars

\* C20: at no moment are two processing threads waiting in buffer.get on
\* the queue.
C20_SingleConsumer ==
  Cardinality({t \in ThreadIds : thr[t].pc = "get"}) <= 1

\* C16: the samples handed on, chunk after chunk, are in capture order, and
\* the queue changes only by a frame appended at its end or by its first
\* frame taken, by a thread in buffer.get or by the drain of stop.
C16_ChunksInCaptureOrder ==
  /\ [](\A i, j \in DOMAIN delivered : i < j => delivered[i] < delivered[j])
  /\ [][buffer' # buffer
          => \/ \E frame \in Range(buffer') : buffer' = Append(buffer, frame)
             \/ /\ buffer # <<>>
                /\ buffer' = Tail(buffer)
                /\ \/ ctl = "stop_drain"
                   \/ \E t \in ThreadIds :
                        /\ thr[t].pc = "get"
                        /\ thr'[t].audio_chunks
                             = Append(thr[t].audio_chunks, Head(buffer))]_vars

\* C18: a poll of the queue made while running and more than the assembly
\* ceiling (1.5 x buffer_duration) after the cycle began ends the cycle,
\* whether or not the poll got a frame.
C18_CycleEndsWithinCeiling ==
  [][\A t \in ThreadIds :
       (/\ thr[t].pc = "get"
        /\ thr'[t].pc # "get"
        /\ running
        /\ Now - thr[t].start_time > AssemblyCeiling)
         => thr'[t].pc = "check"]_vars

C21_TranslateOnlyWhenEnabled ==
  [][/\ translate_calls' # translate_calls
        => /\ translate_calls' = translate_calls + 1
           /\ \E t \in ThreadIds :
                /\ thr[t].pc = "translate"
                /\ thr'[t].pc = "dispatch"
                /\ Truthy(thr[t].transcription)
                /\ target_language # "en"
                /\ translation_available
                /\ translation_loaded
     /\ \A t \in ThreadIds :
          /\ (/\ thr[t].pc = "translate"
              /\ thr'[t].pc # "translate"
              /\ ~(/\ Truthy(thr[t].transcription)
                   /\ target_language # "en"
                   /\ translation_available
                   /\ translation_loaded))
               => /\ translate_calls' = translate_calls
                  /\ thr'[t].translation = NoText
          /\ (thr[t].pc \in {"check", "engine"} /\ thr'[t].pc = "dispatch")
               => /\ translate_calls' = translate_calls
                  /\ thr'[t].translation = NoText]_vars

\* a translation was made and reached the callback
C21_Witness ==
  /\ translate_calls = 1
  /\ \E t \in ThreadIds :
       /\ thr[t].sent.made
       /\ Truthy(thr[t].sent.translation)

KeepaliveCall == Call(Some(<<>>), Some(<<>>))
Blank(segments) ==
  \A i \in DOMAIN segments : \A k \in DOMAIN segments[i] : segments[i][k] = " "

\* C22: segments that are none or all blank make an empty text, and a
\* chunk for which the engine gave no text goes on as a silent one does:
\* transcription and translation None, no translation call, no callback
\* with a result, and the timer left as it is; the only callback such a
\* cycle can make is the keepalive.
C22_EmptyResultIsNoSpeech ==
  /\ [](\A segments \in SegmentLists :
          Blank(segments) => Strip(Join(segments)) = <<>>)
  /\ [][\A t \in ThreadIds :
          /\ (/\ thr[t].pc = "engine"
              /\ thr'[t].pc # "engine"
              /\ ~Truthy(thr'[t].transcription))
               => /\ thr'[t].pc = "dispatch"
                  /\ thr'[t].transcription = NoText
                  /\ thr'[t].translation = NoText
                  /\ translate_calls' = translate_calls
          /\ (/\ thr[t].pc = "dispatch"
              /\ thr'[t].pc # "dispatch"
              /\ ~Truthy(thr[t].transcription))
               => /\ ~thr'[t].sent.made
                  /\ translate_calls' = translate_calls
                  /\ thr'[t].last_transcription_time
                       = thr[t].last_transcription_time
          /\ (/\ thr[t].pc = "keepalive"
              /\ thr'[t].pc # "keepalive"
              /\ ~Truthy(thr[t].transcription))
               => /\ thr'[t].sent.made => thr'[t].sent = KeepaliveCall
                  /\ thr'[t].last_transcription_time
                       = thr[t].last_transcription_time]_vars

\* the engine ran on a loud chunk, did not fail and gave no text
C22_Witness ==
  \E t \in ThreadIds :
    /\ thr[t].pc = "dispatch"
    /\ Peak(thr[t].audio_data) >= MinAudioLevel
    /\ thr[t].failed = "no"
    /\ thr[t].transcription = NoText
    /\ callback_function # "None"

\* C23: a thread leaves process_audio only from the loop test or the test
\* after the collection loop, and only with the running flag false; an
\* error of the engine leaves the chunk without text, an error of the
\* translation leaves it without translation, an error of the callback ends
\* the cycle, and each time the thread goes on.
C23_FailuresDoNotEndThread ==
  [][\A t \in ThreadIds :
       /\ (thr[t].pc \in LivePcs /\ thr'[t].pc = "done")
            => ~running /\ thr[t].pc \in {"loop", "check"}
       /\ (/\ thr[t].pc \in {"engine", "translate", "dispatch", "keepalive"}
           /\ thr'[t].pc # thr[t].pc)
            => thr'[t].pc \in LivePcs
       /\ (thr[t].pc = "engine" /\ thr'[t].failed = "engine")
            => /\ thr'[t].pc = "dispatch"
               /\ thr'[t].transcription = NoText
       /\ (thr[t].pc = "translate" /\ thr'[t].failed = "translation")
            => /\ thr'[t].pc = "dispatch"
               /\ thr'[t].transcription = thr[t].transcription
       /\ (/\ thr[t].pc \in {"dispatch", "keepalive"}
           /\ thr'[t].failed = "callback")
            => thr'[t].pc = "loop"]_vars

\* the callback raised and the thread is back at the loop test, running
C23_Witness ==
  \E t \in ThreadIds :
    /\ thr[t].pc = "loop"
    /\ thr[t].failed = "callback"
    /\ Truthy(thr[t].sent.transcription)
    /\ running

\* C24: a live processing thread that sees the running flag false returns
\* from process_audio, unless the flag is set true again first.
C24_ThreadExitsAfterStop ==
  \A t \in ThreadIds :
    (thr[t].pc \in LivePcs /\ ~running)
      ~> (thr[t].pc = "done" \/ running)

\* the thread returned although no frame ever arrived
C24_Witness ==
  /\ thr[1].pc = "done"
  /\ nframes = 0
  /\ ~running
  /\ last_call = "stop_ok"

\* the join of line 396 returns while its thread is still in process_audio
JoinTimesOut ==
  /\ ctl = "stop_join"
  /\ ctl' # "stop_join"
  /\ HasThread(processing_thread)
  /\ thr[processing_thread].pc \in LivePcs

\* stop_transcription returns from its drain loop while a thread is still
\* in process_audio
ReturnsWithLiveThread ==
  /\ ctl = "stop_drain"
  /\ ctl' = "idle"
  /\ \E t \in ThreadIds : thr[t].pc \in LivePcs

\* C25: when the join times out, stop goes on: it releases the thread
\* handle and drains the queue, and when it returns it has raised nothing,
\* the queue is empty and the transcriber is idle.
C25_JoinTimeoutDoesNotStopTeardown ==
  /\ [][JoinTimesOut => (ctl' = "stop_drain" /\ processing_thread' = 0)]_vars
  /\ [][ReturnsWithLiveThread =>
          (last_call' = "stop_ok" /\ Idle' /\ buffer' = <<>>)]_vars

\* stop returned after a join that timed out, with frames drained
C25_Witness ==
  /\ ctl = "idle"
  /\ last_call = "stop_ok"
  /\ Idle
  /\ buffer = <<>>
  /\ nframes > 0
  /\ thr[1].pc \in ChunkPcs

\* line 345: thread t calls the callback with ("", "")
KeepaliveEmitted(t) ==
  /\ thr[t].pc = "keepalive"
  /\ thr'[t].sent = KeepaliveCall

\* the time the keepalive threshold is counted from: the last call of the
\* callback with a result, or line 299 when there was none
SinceInformative(rec) ==
  Now - (IF rec.last_informative = NoTime THEN rec.last_transcription_time
         ELSE rec.last_informative)

\* C26: the ("", "") keepalive is sent only at the end of a cycle that has
\* no transcription, and only when more than the keepalive threshold has
\* passed since the last callback with a result (or since the loop began).
C26_KeepaliveOnlyWhenQuiet ==
  [][\A t \in ThreadIds :
       KeepaliveEmitted(t) =>
         /\ ~Truthy(thr[t].transcription)
         /\ SinceInformative(thr[t]) > KeepaliveThreshold]_vars

\* lines 334 and 345: thread t calls the callback
CallbackInvoked(t) ==
  /\ thr[t].pc \in {"dispatch", "keepalive"}
  /\ thr'[t].sent.made

\* stop_transcription has returned and nothing was started since
StopReturned ==
  /\ ctl = "idle"
  /\ last_call \in StopOutcomes
  /\ ~running

\* C27: once stop_transcription has returned, no thread calls the callback,
\* neither with a result nor with the keepalive.
C27_NoCallbackAfterStop ==
  [][\A t \in ThreadIds : CallbackInvoked(t) => ~StopReturned]_vars

\* thread t takes a step that gates a chunk, ends its transcription or
\* translation, or dispatches it
ChunkStep(t) ==
  /\ thr'[t].pc # thr[t].pc
  /\ thr[t].pc \in ChunkPcs \/ thr'[t].pc \in ChunkPcs

\* the chunk that step is about
ChunkOf(t) ==
  IF thr[t].pc \in ChunkPcs THEN thr[t].audio_data ELSE thr'[t].audio_data

\* C28: while a session runs, every chunk that is gated, transcribed or
\* dispatched consists of samples captured after that session's start.
C28_NoAudioCrossesSessions ==
  [][\A t \in ThreadIds :
       (ChunkStep(t) /\ running)
         => \A id \in Ids(ChunkOf(t)) : id > session_first]_vars
====
